---- MODULE Spec2Model ----
(***************************************************************************)
(* Model of akasha's document search (src/search.py): the three           *)
(* retrievers (mmr, svm, tfidf), the budgeted round-robin merge            *)
(* _merge_docs and the dispatcher get_docs.                                *)
(*                                                                         *)
(* Python indices are 0-based and TLA+ sequences 1-based: the loop         *)
(* variable i and the SVM row numbers keep their Python values, so that    *)
(* docs[i] is docs[i + 1] here and row r of the SVM data set is the query  *)
(* for r = 0 and documents[r - 1] = db[r] for r >= 1.                      *)
(***************************************************************************)
EXTENDS Integers, Sequences, FiniteSets, TLC

VARIABLES
    db,             \* the vector store: the sequence of stored Documents
    verbose,        \* get_docs / _merge_docs argument verbose
    stdout,         \* the lines print has written
    search_type,    \* get_docs arguments
    topK,
    threshold,
    language,
    pc,             \* position of the running call
    docs_list,      \* the ranked lists handed to _merge_docs
    i,              \* _merge_docs: outer loop variable (0-based rank)
    j,              \* _merge_docs: position in docs_list of the inner loop
    res,            \* _merge_docs: res
    cur_count,      \* _merge_docs: cur_count
    logs,           \* the caller's log list
    ret,            \* value returned to the caller
    exc,            \* exception that left the call, or NoExc
    similarities,   \* _get_relevant_doc_svm: decision_function(x), rows 0..N
    sorted_ix,      \* _get_relevant_doc_svm: sorted_ix
    top_k_rows      \* rows appended by the loop of lines 72-78, in order

vars == <<db, verbose, stdout, search_type, topK, threshold, language, pc,
          docs_list, i, j, res, cur_count, logs, ret, exc, similarities,
          sorted_ix, top_k_rows>>

(***************************************************************************)
(* Bounds of the model.                                                    *)
(***************************************************************************)
MaxCandidates == 3      \* total number of entries of the lists given to _merge_docs
MaxTopK == 3            \* largest topK / k
MaxN == 2               \* largest number of Documents in the store
MaxScore == 1           \* decision_function values range over -MaxScore..MaxScore

(***************************************************************************)
(* Documents.  A text is kept as its script and its number of words:      *)
(* "latin" is n words separated by single blanks, "han" is n dictionary   *)
(* words written without blanks.                                           *)
(***************************************************************************)
Latin(n) == [script |-> "latin", words |-> n]
Han(n) == [script |-> "han", words |-> n]

LatinTexts == {Latin(1000), Latin(1200)}
HanTexts == {Han(900)}

Document(page_content, metadata) ==
    [page_content |-> page_content, metadata |-> metadata]

\* the Documents the ranked lists are made of
Documents ==
    {Document(t, m) : t \in LatinTexts, m \in {"p1", "p2", "p3"}}
        \cup {Document(t, m) : t \in HanTexts, m \in {"p1", "p2"}}

\* str.split(): the blank-separated pieces of the text
SplitLen(text) ==
    IF text.words = 0 THEN 0
    ELSE IF text.script = "latin" THEN text.words
    ELSE 1

\* len(list(jieba.cut(text))): jieba yields the words and, as tokens of
\* their own, the blanks between them
JiebaLen(text) ==
    IF text.words = 0 THEN 0
    ELSE IF text.script = "latin" THEN 2 * text.words - 1
    ELSE text.words

\* words_len of lines 130 and 137
WordsLen(doc, lang) ==
    IF lang = "ch" THEN JiebaLen(doc.page_content)
    ELSE SplitLen(doc.page_content)

\* the limit of lines 131 and 138
BudgetSwapped(lang) == IF lang = "ch" THEN 3000 ELSE 1800
Budget(lang) == IF lang = "ch" THEN 1800 ELSE 3000

\* the test of lines 131 and 138
OverflowsAtLimit(cur, words_len, lang) == cur + words_len >= Budget(lang)
Overflows(cur, words_len, lang) == cur + words_len > Budget(lang)

\* docs[i] in res (list membership by Document equality)
InResLast(doc, r) == Len(r) > 0 /\ r[Len(r)] = doc
InRes(doc, r) == \E n \in 1..Len(r) : r[n] = doc

\* range(topK) is exhausted
RangeDonePastEnd(ix, k) == ix > k
RangeDone(ix, k) == ix >= k

\* str(n) for n >= 0
Digit(d) ==
    CASE d = 0 -> "0" [] d = 1 -> "1" [] d = 2 -> "2" [] d = 3 -> "3"
      [] d = 4 -> "4" [] d = 5 -> "5" [] d = 6 -> "6" [] d = 7 -> "7"
      [] d = 8 -> "8" [] d = 9 -> "9"

RECURSIVE str(_)
str(n) == IF n < 10 THEN Digit(n) ELSE str(n \div 10) \o Digit(n % 10)

\* the entry of lines 134, 141 and 149
WordsLengthLog(count) == "words length: " \o str(count)

\* what print("words length: ", cur_count) of lines 133, 140 and 148 writes
WordsLengthOutput(count) == "words length:  " \o str(count) \o "\n"

NoExc == "none"
Languages == {"ch", "en"}

\* what the caller holds: nothing yet, None, or a list of Documents
Pending == [kind |-> "pending", docs |-> <<>>]
ReturnedNone == [kind |-> "None", docs |-> <<>>]
Returned(docs) == [kind |-> "list", docs |-> docs]

\* relevancy_threshold: None, or the fraction num / den
NoThreshold == [is_none |-> TRUE, num |-> 0, den |-> 1]
Fraction(num, den) == [is_none |-> FALSE, num |-> num, den |-> den]
Thresholds == {NoThreshold, Fraction(1, 2)}

SvmIdle == <<>>

(***************************************************************************)
(* _merge_docs (lines 103-151).  One action per way through the body of   *)
(* the inner loop.  verbose only prints, so it is no part of the state.    *)
(***************************************************************************)
\* docs of the inner loop, and docs[i]
CurDocs == docs_list[j]
Candidate == CurDocs[i + 1]

\* the next iteration: the next list of this round, or the first of the next
Advance ==
    /\ j' = IF j < Len(docs_list) THEN j + 1 ELSE 1
    /\ i' = IF j < Len(docs_list) THEN i ELSE i + 1

InLoop == pc = "merge" /\ ~RangeDone(i, topK)

\* lines 122-123: this list has no entry of rank i
MergeSkipShort ==
    /\ InLoop
    /\ i >= Len(CurDocs)
    /\ Advance
    /\ UNCHANGED <<db, verbose, stdout, search_type, topK, threshold, language, pc, docs_list,
                   res, cur_count, logs, ret, exc, similarities, sorted_ix,
                   top_k_rows>>

\* lines 125-126: the entry is in res already
MergeSkipDuplicate ==
    /\ InLoop
    /\ i < Len(CurDocs)
    /\ InRes(Candidate, res)
    /\ Advance
    /\ UNCHANGED <<db, verbose, stdout, search_type, topK, threshold, language, pc, docs_list,
                   res, cur_count, logs, ret, exc, similarities, sorted_ix,
                   top_k_rows>>

\* the early return replaced by a continue
MergeOverflowContinue ==
    /\ InLoop
    /\ i < Len(CurDocs)
    /\ ~InRes(Candidate, res)
    /\ Overflows(cur_count, WordsLen(Candidate, language), language)
    /\ Advance
    /\ UNCHANGED <<db, verbose, stdout, search_type, topK, threshold, language, pc, docs_list,
                   res, cur_count, logs, ret, exc, similarities, sorted_ix,
                   top_k_rows>>

\* lines 129-142: the entry does not fit: log the count and return res
MergeOverflow ==
    /\ InLoop
    /\ i < Len(CurDocs)
    /\ ~InRes(Candidate, res)
    /\ Overflows(cur_count, WordsLen(Candidate, language), language)
    /\ stdout' = IF verbose THEN Append(stdout, WordsLengthOutput(cur_count))
                          ELSE stdout
    /\ logs' = Append(logs, WordsLengthLog(cur_count))
    /\ ret' = Returned(res)
    /\ pc' = "done"
    /\ UNCHANGED <<db, verbose, search_type, topK, threshold, language, docs_list, i, j,
                   res, cur_count, exc, similarities, sorted_ix, top_k_rows>>

\* lines 144-145: the entry fits
MergeAppend ==
    /\ InLoop
    /\ i < Len(CurDocs)
    /\ ~InRes(Candidate, res)
    /\ ~Overflows(cur_count, WordsLen(Candidate, language), language)
    /\ cur_count' = cur_count + WordsLen(Candidate, language)
    /\ res' = Append(res, Candidate)
    /\ Advance
    /\ UNCHANGED <<db, verbose, stdout, search_type, topK, threshold, language, pc, docs_list,
                   logs, ret, exc, similarities, sorted_ix, top_k_rows>>

\* the final entry appended under "if verbose", next to the print
MergeCompleteVerboseOnly ==
    /\ pc = "merge"
    /\ RangeDone(i, topK)
    /\ stdout' = IF verbose THEN Append(stdout, WordsLengthOutput(cur_count))
                          ELSE stdout
    /\ logs' = IF verbose THEN Append(logs, WordsLengthLog(cur_count)) ELSE logs
    /\ ret' = Returned(res)
    /\ pc' = "done"
    /\ UNCHANGED <<db, verbose, search_type, topK, threshold, language,
                   docs_list, i, j, res, cur_count, exc, similarities,
                   sorted_ix, top_k_rows>>

\* lines 147-151: the loops are over
MergeComplete ==
    /\ pc = "merge"
    /\ RangeDone(i, topK)
    /\ stdout' = IF verbose THEN Append(stdout, WordsLengthOutput(cur_count))
                          ELSE stdout
    /\ logs' = Append(logs, WordsLengthLog(cur_count))
    /\ ret' = Returned(res)
    /\ pc' = "done"
    /\ UNCHANGED <<db, verbose, search_type, topK, threshold, language, docs_list, i, j,
                   res, cur_count, exc, similarities, sorted_ix, top_k_rows>>

(***************************************************************************)
(* _merge_docs called on its own: every sequence of 1..NumRetrievers       *)
(* ranked lists with at most MaxCandidates entries in all.                 *)
(***************************************************************************)
NumRetrievers == 3

RECURSIVE SumTo(_, _)
SumTo(shape, n) == IF n = 0 THEN 0 ELSE SumTo(shape, n - 1) + shape[n]

Shapes ==
    UNION {{s \in [1..n -> 0..MaxCandidates] : SumTo(s, n) <= MaxCandidates} :
           n \in 1..NumRetrievers}

\* the lists of lengths shape[1], shape[2], ... cut from the sequence flat
CutLists(flat, shape) ==
    [n \in DOMAIN shape |->
        SubSeq(flat, SumTo(shape, n - 1) + 1, SumTo(shape, n))]

InitMerge ==
    /\ db = <<>>
    /\ verbose = FALSE
    /\ stdout = <<>>
    /\ search_type = "none"
    /\ threshold = NoThreshold
    /\ topK \in 1..MaxTopK
    /\ language \in Languages
    /\ \E shape \in Shapes :
         \E flat \in [1..SumTo(shape, Len(shape)) -> Documents] :
            docs_list = CutLists(flat, shape)
    /\ pc = "merge"
    /\ i = 0
    /\ j = 1
    /\ res = <<>>
    /\ cur_count = 0
    /\ logs = <<>>
    /\ ret = Pending
    /\ exc = NoExc
    /\ similarities = SvmIdle
    /\ sorted_ix = SvmIdle
    /\ top_k_rows = SvmIdle

NextMerge ==
    \/ MergeSkipShort
    \/ MergeSkipDuplicate
    \/ MergeOverflow
    \/ MergeAppend
    \/ MergeComplete

SpecMerge == InitMerge /\ [][NextMerge]_vars

(***************************************************************************)
(* The vector store.  db.get returns documents and metadatas (and the      *)
(* embeddings, which stay opaque) aligned by index: db[n] is the Document  *)
(* made of documents[n - 1] and metadatas[n - 1].                          *)
(***************************************************************************)
StoredDocuments ==
    {Document(Latin(1200), "p1"), Document(Han(900), "p1"), Document(Han(900), "p2")}

Corpora == UNION {[1..n -> StoredDocuments] : n \in 0..MaxN}

(***************************************************************************)
(* _get_relevant_doc_svm (lines 30-79).  Row 0 of x is the query and row   *)
(* r >= 1 is the embedding of db[r].  The fitted classifier is opaque:     *)
(* decision_function may return any scores.                                *)
(***************************************************************************)
Scores == (0 - MaxScore)..MaxScore

\* the values decision_function(x) may take for n stored Documents
ScoreVectors(n) == [0..n -> Scores]

IsPermutation(ix, n) ==
    /\ Len(ix) = n + 1
    /\ \A r \in 0..n : \E p \in 1..(n + 1) : ix[p] = r

\* the orders of the rows 0..n, for every size n of the store
RowOrders ==
    [n \in 0..MaxN |-> {ix \in [1..(n + 1) -> 0..n] : IsPermutation(ix, n)}]

\* line 57, np.argsort(-similarities): the rows by decreasing score; the
\* sort is not stable, so rows of equal score come in any order
Argsorts(sim) ==
    LET n == Cardinality(DOMAIN sim) - 1
    IN  {ix \in RowOrders[n] : \A p \in 1..n : sim[ix[p]] >= sim[ix[p + 1]]}

\* line 64, np.where(sorted_ix == 0)[0][0]
ZeroIndex(ix) == (CHOOSE p \in 1..Len(ix) : ix[p] = 0) - 1

\* the swap with the slot before the query's instead of slot 0
SwapQueryBack(ix) ==
    LET zero_index == ZeroIndex(ix)
    IN  IF zero_index # 0
        THEN [ix EXCEPT ![zero_index] = ix[zero_index + 1],
                        ![zero_index + 1] = ix[zero_index]]
        ELSE ix

\* the correction left out
NoSwap(ix) == ix

\* lines 64-66: put the query's row first
SwapQueryFirst(ix) ==
    LET zero_index == ZeroIndex(ix)
    IN  IF zero_index # 0
        THEN [ix EXCEPT ![1] = ix[zero_index + 1], ![zero_index + 1] = ix[1]]
        ELSE ix

MaxOf(sim) == CHOOSE v \in Scores :
    (\E r \in DOMAIN sim : sim[r] = v) /\ (\A r \in DOMAIN sim : sim[r] <= v)
MinOf(sim) == CHOOSE v \in Scores :
    (\E r \in DOMAIN sim : sim[r] = v) /\ (\A r \in DOMAIN sim : sim[r] >= v)

\* 1 / 1e-6
PerEpsilon == 1000000

\* lines 68-69 and 74-75: relevancy_threshold is None, or
\* (sim[row] - min) / (max - min + 1e-6) >= num / den, in whole numbers
PassesThreshold(sim, row, thr) ==
    \/ thr.is_none
    \/ (sim[row] - MinOf(sim)) * thr.den * PerEpsilon
          >= thr.num * ((MaxOf(sim) - MinOf(sim)) * PerEpsilon + 1)

\* the slice sorted_ix[1 : k + 1], for k >= 0
TopSlice(ix, k) ==
    SubSeq(ix, 2, IF k + 1 < Len(ix) THEN k + 1 ELSE Len(ix))

RECURSIVE Passing(_, _, _)
Passing(rows, sim, thr) ==
    IF Len(rows) = 0 THEN <<>>
    ELSE LET before == Passing(SubSeq(rows, 1, Len(rows) - 1), sim, thr)
             row == rows[Len(rows)]
         IN  IF PassesThreshold(sim, row, thr) THEN Append(before, row)
             ELSE before

\* lines 72-76: the rows the loop appends, in order
SelectedRows(ix, sim, k, thr) == Passing(TopSlice(ix, k), sim, thr)

\* lines 77-78: documents[row - 1], metadatas[row - 1]; for row 0 Python's
\* index -1 is the last entry
RowDocument(store, row) ==
    IF row = 0 THEN store[Len(store)] ELSE store[row]

TopKResults(store, rows) ==
    [n \in 1..Len(rows) |-> RowDocument(store, rows[n])]

\* lines 47-54: np.concatenate of the query with no embeddings, and the fit
\* of a data set with one class, raise ValueError
SvmFitFails ==
    /\ pc = "svm_fit"
    /\ Len(db) = 0
    /\ exc' = "ValueError"
    /\ pc' = "raised"
    /\ UNCHANGED <<db, verbose, stdout, search_type, topK, threshold, language, docs_list, i, j,
                   res, cur_count, logs, ret, similarities, sorted_ix,
                   top_k_rows>>

\* lines 43-56
SvmScore ==
    /\ pc = "svm_fit"
    /\ Len(db) > 0
    /\ similarities' \in ScoreVectors(Len(db))
    /\ pc' = "svm_sort"
    /\ UNCHANGED <<db, verbose, stdout, search_type, topK, threshold, language, docs_list, i, j,
                   res, cur_count, logs, ret, exc, sorted_ix, top_k_rows>>

\* line 57
SvmSort ==
    /\ pc = "svm_sort"
    /\ sorted_ix' \in Argsorts(similarities)
    /\ pc' = "svm_swap"
    /\ UNCHANGED <<db, verbose, stdout, search_type, topK, threshold, language, docs_list, i, j,
                   res, cur_count, logs, ret, exc, similarities, top_k_rows>>

\* lines 64-66
SvmSwap ==
    /\ pc = "svm_swap"
    /\ sorted_ix' = SwapQueryFirst(sorted_ix)
    /\ pc' = "svm_select"
    /\ UNCHANGED <<db, verbose, stdout, search_type, topK, threshold, language, docs_list, i, j,
                   res, cur_count, logs, ret, exc, similarities, top_k_rows>>

\* lines 68-79
SvmSelect ==
    /\ pc = "svm_select"
    /\ top_k_rows' = SelectedRows(sorted_ix, similarities, topK, threshold)
    /\ ret' = Returned(TopKResults(db, top_k_rows'))
    /\ pc' = "done"
    /\ UNCHANGED <<db, verbose, stdout, search_type, topK, threshold, language, docs_list, i, j,
                   res, cur_count, logs, exc, similarities, sorted_ix>>

(***************************************************************************)
(* _get_relevant_doc_svm called on its own.                                *)
(***************************************************************************)
InitSvm ==
    /\ db \in Corpora
    /\ verbose = FALSE
    /\ stdout = <<>>
    /\ search_type = "none"
    /\ threshold \in Thresholds
    /\ topK \in 1..MaxTopK
    /\ language = "ch"
    /\ docs_list = <<>>
    /\ pc = "svm_fit"
    /\ i = 0
    /\ j = 1
    /\ res = <<>>
    /\ cur_count = 0
    /\ logs = <<>>
    /\ ret = Pending
    /\ exc = NoExc
    /\ similarities = SvmIdle
    /\ sorted_ix = SvmIdle
    /\ top_k_rows = SvmIdle

NextSvm ==
    \/ SvmFitFails
    \/ SvmScore
    \/ SvmSort
    \/ SvmSwap
    \/ SvmSelect

SpecSvm == InitSvm /\ [][NextSvm]_vars

(***************************************************************************)
(* get_docs (lines 155-205).  The mmr and tfidf retrievers are library     *)
(* code: each may return the stored Documents in any order, and mmr any    *)
(* number of them.  A call of the store, of the embedding service or of a  *)
(* library retriever may also raise.                                       *)
(***************************************************************************)
SearchTypes == {"merge", "mmr", "svm", "tfidf"}
UnknownTypes == {"unknown"}

\* the rankings of Documents of the store a retriever may return
Rankings(store) ==
    UNION {{[n \in 1..m |-> store[f[n]]] :
                f \in {g \in [1..m -> 1..Len(store)] :
                          \A a, b \in 1..m : a # b => g[a] # g[b]}} :
           m \in 0..Len(store)}

\* result[:k] of line 27
Take(docs, k) == SubSeq(docs, 1, IF k < Len(docs) THEN k ELSE Len(docs))

\* the rows lines 56-76 may select on a store of n Documents: every score
\* vector, every order the sort may give it, corrected and filtered
SvmSelections(n, k, thr) ==
    UNION {{SelectedRows(SwapQueryFirst(ix), sim, k, thr) : ix \in Argsorts(sim)} :
           sim \in ScoreVectors(n)}

\* SvmSelections, computed once for every size, k and threshold
SvmSelectionTable ==
    [n \in 1..MaxN, k \in 1..MaxTopK, thr \in Thresholds |->
        SvmSelections(n, k, thr)]

\* what _get_relevant_doc_svm may return on a store that is not empty
SvmResults(store, k, thr) ==
    {TopKResults(store, rows) : rows \in SvmSelectionTable[Len(store), k, thr]}

\* the message of line 200
UnknownInfoLog(st) == "cannot find search type " \o st \o ", end process\n"

\* what print(info) of line 201 writes
UnknownInfoOutput(st) == UnknownInfoLog(st) \o "\n"

\* lines 177-196: a recognized search_type
GetDocs ==
    /\ pc = "idle"
    /\ search_type' \in SearchTypes
    /\ topK' \in 1..MaxTopK
    /\ threshold' \in Thresholds
    /\ language' \in Languages
    /\ pc' = CASE search_type' = "svm" -> "svm"
               [] search_type' = "tfidf" -> "tfidf"
               [] OTHER -> "mmr"
    /\ UNCHANGED <<db, verbose, stdout, docs_list, i, j, res, cur_count, logs, ret, exc,
                   similarities, sorted_ix, top_k_rows>>

\* the else branch returning without the log entry
GetDocsUnknownSilent ==
    /\ pc = "idle"
    /\ search_type' \in UnknownTypes
    /\ topK' \in 1..MaxTopK
    /\ threshold' \in Thresholds
    /\ language' \in Languages
    /\ stdout' = Append(stdout, UnknownInfoOutput(search_type'))
    /\ ret' = ReturnedNone
    /\ pc' = "done"
    /\ UNCHANGED <<db, verbose, docs_list, i, j, res, cur_count, logs, exc,
                   similarities, sorted_ix, top_k_rows>>

\* lines 199-203: any other search_type
GetDocsUnknown ==
    /\ pc = "idle"
    /\ search_type' \in UnknownTypes
    /\ topK' \in 1..MaxTopK
    /\ threshold' \in Thresholds
    /\ language' \in Languages
    /\ logs' = Append(logs, UnknownInfoLog(search_type'))
    /\ stdout' = Append(stdout, UnknownInfoOutput(search_type'))
    /\ ret' = ReturnedNone
    /\ pc' = "done"
    /\ UNCHANGED <<db, verbose, docs_list, i, j, res, cur_count, exc, similarities,
                   sorted_ix, top_k_rows>>

\* lines 178 and 185, _get_relevant_doc_mmr (lines 94-99)
GetRelevantDocMmr ==
    /\ pc = "mmr"
    /\ \E docs \in Rankings(db) : docs_list' = Append(docs_list, docs)
    /\ pc' = IF search_type = "merge" THEN "svm" ELSE "merge"
    /\ UNCHANGED <<db, verbose, stdout, search_type, topK, threshold, language, i, j, res,
                   cur_count, logs, ret, exc, similarities, sorted_ix,
                   top_k_rows>>

\* lines 179 and 190, _get_relevant_doc_svm on a store that is not empty
GetRelevantDocSvm ==
    /\ pc = "svm"
    /\ Len(db) > 0
    /\ \E docs \in SvmResults(db, topK, threshold) :
          docs_list' = Append(docs_list, docs)
    /\ pc' = IF search_type = "merge" THEN "tfidf" ELSE "merge"
    /\ UNCHANGED <<db, verbose, stdout, search_type, topK, threshold, language, i, j, res,
                   cur_count, logs, ret, exc, similarities, sorted_ix,
                   top_k_rows>>

\* lines 179 and 190, _get_relevant_doc_svm on an empty store: the
\* ValueError of lines 47-54 leaves get_docs
GetRelevantDocSvmRaises ==
    /\ pc = "svm"
    /\ Len(db) = 0
    /\ exc' = "ValueError"
    /\ pc' = "raised"
    /\ UNCHANGED <<db, verbose, stdout, search_type, topK, threshold, language, docs_list, i, j,
                   res, cur_count, logs, ret, similarities, sorted_ix,
                   top_k_rows>>

\* lines 180 and 195, _get_relevant_doc_tfidf (lines 20-27)
GetRelevantDocTfidf ==
    /\ pc = "tfidf"
    /\ \E docs \in Rankings(db) :
          docs_list' = Append(docs_list, Take(docs, topK))
    /\ pc' = "merge"
    /\ UNCHANGED <<db, verbose, stdout, search_type, topK, threshold, language, i, j, res,
                   cur_count, logs, ret, exc, similarities, sorted_ix,
                   top_k_rows>>

\* the failure written to the log before it is raised again
UpstreamFailsLogged ==
    /\ pc \in {"mmr", "svm", "tfidf"}
    /\ logs' = Append(logs, "upstream failure")
    /\ exc' = "UpstreamError"
    /\ pc' = "raised"
    /\ UNCHANGED <<db, verbose, stdout, search_type, topK, threshold, language,
                   docs_list, i, j, res, cur_count, ret, similarities,
                   sorted_ix, top_k_rows>>

\* db.get, db.as_retriever, embeddings.embed_query or a library retriever
\* raises inside a retriever; get_docs catches nothing
UpstreamFails ==
    /\ pc \in {"mmr", "svm", "tfidf"}
    /\ exc' = "UpstreamError"
    /\ pc' = "raised"
    /\ UNCHANGED <<db, verbose, stdout, search_type, topK, threshold, language, docs_list, i, j,
                   res, cur_count, logs, ret, similarities, sorted_ix,
                   top_k_rows>>

Init ==
    /\ db \in Corpora
    /\ verbose = FALSE
    /\ stdout = <<>>
    /\ search_type = "none"
    /\ threshold = NoThreshold
    /\ topK = 1
    /\ language = "ch"
    /\ docs_list = <<>>
    /\ pc = "idle"
    /\ i = 0
    /\ j = 1
    /\ res = <<>>
    /\ cur_count = 0
    /\ logs = <<>>
    /\ ret = Pending
    /\ exc = NoExc
    /\ similarities = SvmIdle
    /\ sorted_ix = SvmIdle
    /\ top_k_rows = SvmIdle

Next ==
    \/ GetDocs
    \/ GetDocsUnknown
    \/ GetRelevantDocMmr
    \/ GetRelevantDocSvm
    \/ GetRelevantDocSvmRaises
    \/ GetRelevantDocTfidf
    \/ UpstreamFails
    \/ MergeSkipShort
    \/ MergeSkipDuplicate
    \/ MergeOverflow
    \/ MergeAppend
    \/ MergeComplete

Spec == Init /\ [][Next]_vars

(***************************************************************************)
(* get_docs called on a log that earlier calls have written to, with       *)
(* either value of verbose.  The log and the flag multiply the states, so  *)
(* the store holds Documents of two kinds here.                            *)
(***************************************************************************)
CallDocuments == {Document(Latin(1200), "p1"), Document(Han(900), "p1")}

CallCorpora == UNION {[1..n -> CallDocuments] : n \in 0..MaxN}

\* the caller's list before the call: new, or holding an earlier entry
PriorLogs == {<<>>, <<WordsLengthLog(900)>>}

InitCall ==
    /\ db \in CallCorpora
    /\ verbose \in BOOLEAN
    /\ stdout = <<>>
    /\ search_type = "none"
    /\ threshold = NoThreshold
    /\ topK = 1
    /\ language = "ch"
    /\ docs_list = <<>>
    /\ pc = "idle"
    /\ i = 0
    /\ j = 1
    /\ res = <<>>
    /\ cur_count = 0
    /\ logs \in PriorLogs
    /\ ret = Pending
    /\ exc = NoExc
    /\ similarities = SvmIdle
    /\ sorted_ix = SvmIdle
    /\ top_k_rows = SvmIdle

SpecCall == InitCall /\ [][Next]_vars

(***************************************************************************)
(* Properties of _merge_docs, checked under SpecMerge.                     *)
(***************************************************************************)
\* the words of the first n passages of a sequence, and of all of them
RECURSIVE WordsOfFirst(_, _, _)
WordsOfFirst(docs, n, lang) ==
    IF n = 0 THEN 0
    ELSE WordsOfFirst(docs, n - 1, lang) + WordsLen(docs[n], lang)

TotalWords(docs, lang) == WordsOfFirst(docs, Len(docs), lang)

\* the budget as the specification states it
Ceiling == IF language = "ch" THEN 1800 ELSE 3000

\* the entries of the lists in the order the loops visit them: rank by rank
\* and, within a rank, list by list
RECURSIVE Visited(_, _, _)
Visited(lists, k, n) ==
    IF n = 0 THEN <<>>
    ELSE LET rank == (n - 1) \div Len(lists)
             list == lists[((n - 1) % Len(lists)) + 1]
             before == Visited(lists, k, n - 1)
         IN  IF rank < Len(list) THEN Append(before, list[rank + 1])
             ELSE before

RoundRobin(lists, k) == Visited(lists, k, k * Len(lists))

\* the first occurrences of the entries of a sequence
RECURSIVE FirstOccurrences(_)
FirstOccurrences(s) ==
    IF Len(s) = 0 THEN <<>>
    ELSE LET before == FirstOccurrences(SubSeq(s, 1, Len(s) - 1))
         IN  IF \E n \in 1..Len(before) : before[n] = s[Len(s)]
             THEN before
             ELSE Append(before, s[Len(s)])

\* the longest prefix of s whose words fit the limit
LongestFitting(s, lang, limit) ==
    LET fits == {n \in 0..Len(s) : WordsOfFirst(s, n, lang) <= limit}
        n == CHOOSE m \in fits : \A o \in fits : o <= m
    IN  SubSeq(s, 1, n)

\* C1: at every step of the loop, and at the return, the words of the
\* passages collected so far (which cur_count counts) are at most 1800 for
\* language 'ch' and at most 3000 otherwise.
C1_BudgetNeverExceeded ==
    /\ TotalWords(res, language) <= Ceiling
    /\ cur_count <= Ceiling
    /\ ret.kind = "list" => TotalWords(ret.docs, language) <= Ceiling

\* a merge that stopped early on a candidate that did not fit, after it had
\* collected passages
C1_Witness ==
    /\ pc = "done"
    /\ i < topK
    /\ Len(ret.docs) >= 2
    /\ cur_count + WordsLen(Candidate, language) > Ceiling

\* C2: the collected passages are pairwise different, and cur_count is the
\* number of words of the collected passages alone: a skipped duplicate adds
\* nothing to it.
C2_NoDuplicates ==
    /\ \A a, b \in 1..Len(res) : a # b => res[a] # res[b]
    /\ cur_count = TotalWords(res, language)
    /\ ret.kind = "list" => ret.docs = res

\* a passage twice in the first list and once more in the second, returned once
C2_Witness ==
    /\ pc = "done"
    /\ topK >= 2
    /\ Len(docs_list) = 2
    /\ Len(docs_list[1]) = 2
    /\ Len(docs_list[2]) = 1
    /\ docs_list[1][1] = docs_list[1][2]
    /\ docs_list[1][1] = docs_list[2][1]
    /\ ret.docs = <<docs_list[1][1]>>
    /\ cur_count = WordsLen(docs_list[1][1], language)

\* three different passages of n words each, as the only list, for a
\* blank-separated language and topK = 3
ThreeOf(n) ==
    /\ Len(docs_list) = 1
    /\ Len(docs_list[1]) = 3
    /\ topK = 3
    /\ language # "ch"
    /\ \A a \in 1..3 : SplitLen(docs_list[1][a].page_content) = n
    /\ \A a, b \in 1..3 : a # b => docs_list[1][a] # docs_list[1][b]

\* C8: a candidate that is no duplicate is appended exactly when cur_count
\* plus its words is at most the budget; three passages of 1000 words give
\* all three and 'words length: 3000', three of 1200 words give the first
\* two and 'words length: 2400'.
C8_InclusiveBoundary ==
    [][ /\ (InLoop /\ i < Len(CurDocs)
              /\ ~(\E n \in 1..Len(res) : res[n] = Candidate))
           => ((res' = Append(res, Candidate))
                 <=> (cur_count + WordsLen(Candidate, language) <= Ceiling))
        /\ (pc' = "done" /\ ThreeOf(1000))
           => (ret'.docs = docs_list[1] /\ logs' = <<"words length: 3000">>)
        /\ (pc' = "done" /\ ThreeOf(1200))
           => (ret'.docs = SubSeq(docs_list[1], 1, 2)
                 /\ logs' = <<"words length: 2400">>)
      ]_vars

\* the 1000-word scenario has returned all three passages
C8_Witness ==
    /\ pc = "done"
    /\ ThreeOf(1000)
    /\ Len(ret.docs) = 3
    /\ cur_count = 3000
    /\ logs = <<"words length: 3000">>

\* C9: the returned list is the longest prefix that fits the budget of the
\* round-robin order of the lists with later occurrences of a passage
\* removed; nothing visited after the first candidate that does not fit is
\* appended.
C9_RoundRobinPrefix ==
    pc = "done" =>
        ret.docs = LongestFitting(FirstOccurrences(RoundRobin(docs_list, topK)),
                                  language, Ceiling)

\* the merge stopped on a candidate of one list while the next list held,
\* at the same rank, a new passage that would have fitted
C9_Witness ==
    /\ pc = "done"
    /\ i < topK
    /\ j < Len(docs_list)
    /\ i < Len(docs_list[j + 1])
    /\ ~(\E n \in 1..Len(res) : res[n] = docs_list[j + 1][i + 1])
    /\ docs_list[j + 1][i + 1] # Candidate
    /\ cur_count + WordsLen(docs_list[j + 1][i + 1], language) <= Ceiling
    /\ Len(ret.docs) >= 1

(***************************************************************************)
(* Properties of _get_relevant_doc_svm, checked under SpecSvm.             *)
(***************************************************************************)
StoredRows == 1..Len(db)

\* the sort left a stored row before the query's, so the swap acts
QueryNotFirst == \E r \in StoredRows : similarities[r] > similarities[0]

\* C5 (as claimed): on an empty store the retriever returns an empty list
\* and raises nothing.
C5_EmptyCorpusGivesEmptyList ==
    (Len(db) = 0 /\ pc \in {"done", "raised"})
        => (pc = "done" /\ ret = Returned(<<>>) /\ exc = NoExc)

\* C6: on a store of N >= 1 Documents the retriever returns at most k and
\* at most N Documents, each the stored Document of a selected row r >= 1;
\* the query's row 0 is never selected.
C6_QueryNeverSelected ==
    (pc = "done" /\ Len(db) > 0) =>
        /\ Len(top_k_rows) <= topK
        /\ Len(top_k_rows) <= Len(db)
        /\ Len(ret.docs) = Len(top_k_rows)
        /\ \A n \in 1..Len(top_k_rows) :
              /\ top_k_rows[n] # 0
              /\ top_k_rows[n] \in StoredRows
              /\ ret.docs[n] = db[top_k_rows[n]]

\* the retriever returned every stored Document although the query was not
\* sorted first
C6_Witness ==
    /\ pc = "done"
    /\ Len(db) = 2
    /\ QueryNotFirst
    /\ Len(top_k_rows) = 2
    /\ ret.docs = <<db[top_k_rows[1]], db[top_k_rows[2]]>>

\* C7: for every order the sort produces, one correction leaves row 0 in
\* slot 0 and a permutation of the same rows, and a second correction
\* changes nothing.
C7_SwapIdempotent ==
    /\ pc = "svm_swap" =>
          LET once == SwapQueryFirst(sorted_ix)
          IN  /\ SwapQueryFirst(once) = once
              /\ once[1] = 0
              /\ IsPermutation(once, Len(db))
    /\ pc = "svm_select" =>
          /\ SwapQueryFirst(sorted_ix) = sorted_ix
          /\ sorted_ix[1] = 0
          /\ IsPermutation(sorted_ix, Len(db))

\* the correction has moved the query from the last slot to the first
C7_Witness ==
    /\ pc = "svm_select"
    /\ Len(db) = 2
    /\ \A r \in StoredRows : similarities[r] > similarities[0]
    /\ sorted_ix[1] = 0

\* C10 (as claimed): the returned rows are in order of decreasing score and,
\* with no threshold and k <= N, they are k rows of the highest scores.
C10_DecreasingRelevance ==
    pc = "done" =>
        /\ \A a, b \in 1..Len(top_k_rows) :
              a < b => similarities[top_k_rows[a]] >= similarities[top_k_rows[b]]
        /\ (threshold.is_none /\ topK <= Len(db)) =>
              /\ Len(top_k_rows) = topK
              /\ \A n \in 1..Len(top_k_rows) : \A r \in StoredRows :
                    (\A m \in 1..Len(top_k_rows) : top_k_rows[m] # r)
                        => similarities[top_k_rows[n]] >= similarities[r]

(***************************************************************************)
(* Properties of get_docs, checked under Spec.                             *)
(***************************************************************************)
\* C3: for search_type 'mmr', 'svm' or 'tfidf' the merge never holds, and
\* get_docs never returns, more than topK passages, however long the list
\* the retriever returned.
C3_AtMostTopK ==
    search_type \in {"mmr", "svm", "tfidf"} =>
        /\ Len(res) <= topK
        /\ pc = "done" => (ret.kind = "list" /\ Len(ret.docs) <= topK)

\* mmr returned more than topK Documents and get_docs returned topK of them
C3_Witness ==
    /\ pc = "done"
    /\ search_type = "mmr"
    /\ Len(docs_list[1]) > topK
    /\ Len(ret.docs) = topK

\* C4: with an unrecognized search_type get_docs returns None, raises
\* nothing, appends the one diagnostic entry to the log, and neither calls a
\* retriever nor merges.
C4_UnknownTypeReported ==
    (pc # "idle" /\ search_type \notin SearchTypes) =>
        /\ pc = "done"
        /\ ret = ReturnedNone
        /\ exc = NoExc
        /\ logs = <<"cannot find search type " \o search_type \o ", end process\n">>
        /\ docs_list = <<>>
        /\ res = <<>>
        /\ cur_count = 0

\* the call with search_type 'unknown' has returned
C4_Witness ==
    /\ pc = "done"
    /\ search_type = "unknown"
    /\ ret.kind = "None"
    /\ Len(logs) = 1

(***************************************************************************)
(* Properties of get_docs on a used log, checked under SpecCall.           *)
(***************************************************************************)
\* C11: when the vector store or the embedding service fails inside a
\* retriever call of get_docs (for 'merge' in the mmr, the svm or the tfidf
\* step, which run in that order), the failure leaves get_docs as it is:
\* no value is returned, the lists of the retrievers that ran before stay as
\* they were, nothing has been merged, the log is the one the call started
\* with, and no retriever or merge step runs afterwards.
C11_UpstreamFailurePropagates ==
    [][/\ pc' \in {"mmr", "svm", "tfidf", "raised"} => logs' = logs
       /\ exc' = "UpstreamError" =>
            /\ pc \in {"mmr", "svm", "tfidf"}
            /\ pc' = "raised"
            /\ ret' = Pending
            /\ logs' = logs
            /\ stdout' = stdout
            /\ docs_list' = docs_list
            /\ Len(docs_list') < (IF search_type' = "merge" THEN NumRetrievers ELSE 1)
            /\ res' = <<>>
            /\ cur_count' = 0
            /\ i' = 0
            /\ j' = 1
       /\ exc # "UpstreamError"]_vars

\* a 'merge' call on a log with an earlier entry failed in the tfidf step,
\* after mmr and svm had returned their lists
C11_Witness ==
    /\ pc = "raised"
    /\ exc = "UpstreamError"
    /\ search_type = "merge"
    /\ Len(docs_list) = 2
    /\ Len(docs_list[1]) > 0
    /\ logs = <<"words length: 900">>
    /\ ret = Pending

\* C12: the log only grows.  A step that is not a return of get_docs leaves
\* the log as it is; the step on which get_docs returns keeps every earlier
\* entry in its place and appends exactly one entry, which for a recognized
\* search_type is "words length: N" with N the sum of the word counts of the
\* Documents returned, on the early return as on the final one and with
\* verbose set or not.
C12_LogAppendOnly ==
    [][IF pc' = "done"
         THEN /\ Len(logs') = Len(logs) + 1
              /\ SubSeq(logs', 1, Len(logs)) = logs
              /\ search_type' \in SearchTypes =>
                    /\ ret'.kind = "list"
                    /\ logs'[Len(logs')] =
                          "words length: " \o str(TotalWords(ret'.docs, language'))
         ELSE logs' = logs]_vars

\* with verbose off, a call on a log with an earlier entry stopped early
\* with one Document of 900 words and appended the entry for it
C12_Witness ==
    /\ pc = "done"
    /\ search_type \in SearchTypes
    /\ ~verbose
    /\ stdout = <<>>
    /\ i < topK
    /\ Len(ret.docs) = 1
    /\ logs = <<"words length: 900", "words length: 900">>

====
